---- MODULE Spec2Model ----
(***************************************************************************)
(* A model of scripts_datos_general.py: the ExcelAnalyzer class and main().*)
(*                                                                         *)
(* Column names and labels are real strings: lower-casing, substring       *)
(* search and label formatting are computed character by character.        *)
(* A cell is one of: a number, a text, or missing (NaN/None).              *)
(* Amounts are exact: every value of the totals mapping is kept in         *)
(* hundredths and a tax rate in per cent, so total * iva_rate is           *)
(* total * ratePct (in hundredths); float rounding is not modelled.        *)
(***************************************************************************)
EXTENDS Integers, Sequences, FiniteSets, TLC

VARIABLES
    pc,                     \* position of main() / ExcelAnalyzer.__init__
    configuracion,          \* self.configuracion
    fs,                     \* what the file system answers for the typed name
    entrada,                \* the last answer typed at an interactive prompt
    archivo_excel,          \* self.archivo_excel
    posibles_rutas,         \* _validar_archivo: posibles_rutas
    sheet_names,            \* _cargar_archivo: xls.sheet_names
    hoja_seleccionada,      \* _cargar_archivo: hoja_seleccionada
    leido,                  \* the frame as pd.read_excel returned it
    df,                     \* self.df (the frame _cargar_archivo works on)
    log_dir,                \* whether logs/ exists
    directorio_salida,      \* whether reportes_<fecha>/ exists
    columnas_monetarias,    \* self.columnas_monetarias
    columnas_no_monetarias, \* self.columnas_no_monetarias
    totales,                \* generar_reporte_html: totales_financieros
    reporte,                \* the report file: absent or the totals rendered
    mensaje,                \* what main() printed last
    etapas                  \* history: the stages completed so far, in order

vars == <<pc, configuracion, fs, entrada, archivo_excel, posibles_rutas,
          sheet_names, hoja_seleccionada, leido, df, log_dir,
          directorio_salida, columnas_monetarias, columnas_no_monetarias,
          totales, reporte, mensaje, etapas>>

(***************************************************************************)
(* Bounds of the model.                                                    *)
(***************************************************************************)
MaxCols == 2
MaxRows == 1
MaxFiles == 2
MaxSheets == 2

(***************************************************************************)
(* Strings.                                                                *)
(***************************************************************************)
CharAt(s, i) == SubSeq(s, i, i)

\* str.lower() of one character (ASCII letters)
LowerChar(c) ==
    CASE c = "A" -> "a" [] c = "B" -> "b" [] c = "C" -> "c" [] c = "D" -> "d"
      [] c = "E" -> "e" [] c = "F" -> "f" [] c = "G" -> "g" [] c = "H" -> "h"
      [] c = "I" -> "i" [] c = "J" -> "j" [] c = "K" -> "k" [] c = "L" -> "l"
      [] c = "M" -> "m" [] c = "N" -> "n" [] c = "O" -> "o" [] c = "P" -> "p"
      [] c = "Q" -> "q" [] c = "R" -> "r" [] c = "S" -> "s" [] c = "T" -> "t"
      [] c = "U" -> "u" [] c = "V" -> "v" [] c = "W" -> "w" [] c = "X" -> "x"
      [] c = "Y" -> "y" [] c = "Z" -> "z"
      [] OTHER -> c

RECURSIVE StrLower(_)
\* str.lower()
StrLower(s) ==
    IF Len(s) = 0 THEN ""
    ELSE LowerChar(CharAt(s, 1)) \o StrLower(SubSeq(s, 2, Len(s)))

\* Python's  sub in s  for strings
StrContains(sub, s) ==
    \E i \in 1..(Len(s) - Len(sub) + 1) : SubSeq(s, i, i + Len(sub) - 1) = sub

(***************************************************************************)
(* Python values.                                                          *)
(***************************************************************************)
\* A column label: a str, or another type (an int label such as 7) with
\* the text str() gives it.
StrName(t) == [isstr |-> TRUE, text |-> t]
IntName(t) == [isstr |-> FALSE, text |-> t]

\* A cell: a number, a text, or missing (NaN / None / empty cell).
Num(n) == [kind |-> "num", v |-> n, s |-> ""]
Txt(t) == [kind |-> "text", v |-> 0, s |-> t]
NaN == [kind |-> "nan", v |-> 0, s |-> ""]

\* dict.get(key, default); a dict with string keys is a function
DictGet(d, key, default) == IF key \in DOMAIN d THEN d[key] ELSE default

\* An insertion-ordered dict is a sequence of [clave, valor]
HasKey(d, k) == \E i \in 1..Len(d) : d[i].clave = k
KeyIndex(d, k) == CHOOSE i \in 1..Len(d) : d[i].clave = k
Lookup(d, k) == d[KeyIndex(d, k)].valor
Keys(d) == [i \in 1..Len(d) |-> d[i].clave]

\* d[k] = v : a key already present keeps its position and takes the value
DictSet(d, k, v) ==
    IF HasKey(d, k)
    THEN [d EXCEPT ![KeyIndex(d, k)] = [clave |-> k, valor |-> v]]
    ELSE Append(d, [clave |-> k, valor |-> v])

InSeq(x, seq) == \E i \in 1..Len(seq) : seq[i] = x

(***************************************************************************)
(* ExcelAnalyzer: class constants.                                         *)
(***************************************************************************)
COLUMNAS_FINANCIERAS ==
    <<"monto", "subtotal", "iva", "total", "descuento",
      "impuesto", "factura", "precio">>

\* configuracion.get('iva_rate', 0.16), in per cent
IvaRateDefault == 16

(***************************************************************************)
(* pd.to_numeric(errors='coerce') and fillna(0)                            *)
(***************************************************************************)
Digits == "0123456789"
IsDigit(c) == \E i \in 1..Len(Digits) : CharAt(Digits, i) = c
DigitVal(c) == (CHOOSE i \in 1..Len(Digits) : CharAt(Digits, i) = c) - 1

\* a text of decimal digits is the only number text the model reads
Parsable(t) == Len(t) > 0 /\ \A i \in 1..Len(t) : IsDigit(CharAt(t, i))

RECURSIVE ParseNat(_)
ParseNat(t) ==
    IF Len(t) = 0 THEN 0
    ELSE 10 * ParseNat(SubSeq(t, 1, Len(t) - 1)) + DigitVal(CharAt(t, Len(t)))

\* pd.to_numeric(..., errors='coerce') on one cell
ToNumeric(c) ==
    CASE c.kind = "num" -> c
      [] c.kind = "text" -> IF Parsable(c.s) THEN Num(ParseNat(c.s)) ELSE NaN
      [] OTHER -> NaN

\* mutant: the fillna(0) of line 168 left out
FillNaOmitido(c) == c

\* Series.fillna(0) on one cell
FillNa(c) == IF c.kind = "nan" THEN Num(0) ELSE c

\* lines 167-168 on one column
CoerceColumn(cells) == [i \in 1..Len(cells) |-> FillNa(ToNumeric(cells[i]))]

(***************************************************************************)
(* _preparar_columnas_financieras (the second definition, lines 161-169,   *)
(* replaces the first one of lines 133-140 in the class body).             *)
(***************************************************************************)
\* any(termino in texto for termino in self.COLUMNAS_FINANCIERAS)
AnyTermino(texto) ==
    \E k \in 1..Len(COLUMNAS_FINANCIERAS) :
        StrContains(COLUMNAS_FINANCIERAS[k], texto)

\* mutant: line 165 left out, the keywords are matched case-sensitively
EsColumnaFinancieraSinLower(columna) ==
    columna.isstr /\ AnyTermino(columna.text)

\* lines 164-166: the test that decides whether a column is rewritten
EsColumnaFinanciera(columna) ==
    columna.isstr /\ AnyTermino(StrLower(columna.text))

PrepararColumnasFinancieras(frame) ==
    [frame EXCEPT !.data =
        [i \in 1..Len(frame.columns) |->
            IF EsColumnaFinanciera(frame.columns[i])
            THEN CoerceColumn(frame.data[i])
            ELSE frame.data[i]]]

(***************************************************************************)
(* _identificar_columnas                                                   *)
(***************************************************************************)
\* mutant: col.lower() of line 176 left out
EsMonetariaSinLower(col) == col.isstr /\ AnyTermino(col.text)

\* lines 175-176: the test of the first comprehension
EsMonetaria(col) == col.isstr /\ AnyTermino(StrLower(col.text))

ColumnasMonetarias(frame) == SelectSeq(frame.columns, EsMonetaria)

\* mutant: line 178 tests  col not in self.COLUMNAS_FINANCIERAS
ColumnasNoMonetariasPorLista(frame, monetarias) ==
    SelectSeq(frame.columns, LAMBDA col : ~InSeq(col.text, COLUMNAS_FINANCIERAS))

ColumnasNoMonetarias(frame, monetarias) ==
    SelectSeq(frame.columns, LAMBDA col : ~InSeq(col, monetarias))

(***************************************************************************)
(* calcular_totales_financieros                                            *)
(***************************************************************************)
\* self.df[columna]
Columna(frame, columna) ==
    frame.data[CHOOSE i \in 1..Len(frame.columns) : frame.columns[i] = columna]

RECURSIVE SeriesSum(_)
\* Series.sum()
SeriesSum(cells) ==
    IF Len(cells) = 0 THEN 0
    ELSE cells[1].v + SeriesSum(Tail(cells))

\* line 193: the test that decides whether the tax entries are recorded
AplicaIva(config, columna) ==
    /\ DictGet(config, "calcular_iva", TRUE)
    /\ ~StrContains("iva", StrLower(columna.text))

\* lines 189-197: the body of the loop for one column
TotalesColumna(acc, frame, config, columna) ==
    LET total_columna == SeriesSum(Columna(frame, columna))
        acc1 == DictSet(acc, "Total " \o columna.text, 100 * total_columna)
    IN  IF AplicaIva(config, columna)
        THEN LET iva_rate == DictGet(config, "iva_rate", IvaRateDefault)
                 iva == total_columna * iva_rate
                 acc2 == DictSet(acc1, "IVA de " \o columna.text, iva)
             IN  DictSet(acc2, "Total con IVA de " \o columna.text,
                         100 * total_columna + iva)
        ELSE acc1

RECURSIVE TotalesDesde(_, _, _, _, _)
\* lines 188-197: the loop over self.columnas_monetarias, from position i
TotalesDesde(acc, frame, config, monetarias, i) ==
    IF i > Len(monetarias) THEN acc
    ELSE TotalesDesde(TotalesColumna(acc, frame, config, monetarias[i]),
                      frame, config, monetarias, i + 1)

\* line 201: the test that selects the entries summed into 'Total Factura'
EntraEnFactura(clave) == StrContains("Total con IVA", clave)

RECURSIVE SumaFactura(_)
\* lines 200-201: sum(valor for clave, valor in totales.items() if ...)
SumaFactura(d) ==
    IF Len(d) = 0 THEN 0
    ELSE (IF EntraEnFactura(d[1].clave) THEN d[1].valor ELSE 0)
         + SumaFactura(Tail(d))

CalcularTotalesFinancieros(frame, config, monetarias) ==
    LET t == TotalesDesde(<<>>, frame, config, monetarias, 1)
    IN  DictSet(t, "Total Factura", SumaFactura(t))

(***************************************************************************)
(* Inputs: the sheets a workbook may hold and the configurations a caller  *)
(* may pass.                                                               *)
(***************************************************************************)
ColumnNames ==
    { StrName("Fecha"), StrName("Precio"), StrName("IVA"),
      StrName("Factura"), StrName("Total con IVA"), IntName("7") }

CellValues == { Num(10), Txt("abc"), NaN }

\* headers: column labels are distinct (read_excel renames duplicates)
Headers ==
    UNION { { h \in [1..n -> ColumnNames] :
                \A i, j \in 1..n : i # j => h[i] # h[j] } : n \in 0..MaxCols }

\* the sheets of the workbooks main() is run on
SheetFrames ==
    { [columns |-> <<>>, data |-> <<>>],
      [columns |-> <<StrName("Precio")>>,
       data |-> << <<Txt("abc"), NaN, Num(50)>> >>],
      [columns |-> <<StrName("Fecha"), StrName("IVA"), IntName("7")>>,
       data |-> << <<Txt("abc"), Txt("5")>>, <<Num(10), Txt("20")>>,
                   <<NaN, Num(7)>> >>] }

\* the configuracion argument: None or {} (both become {}), or a dict with
\* some of the keys
Configuraciones ==
    << <<>>,
       [k \in {"calcular_iva"} |-> FALSE],
       [k \in {"iva_rate"} |-> 25],
       [k \in {"calcular_iva", "iva_rate"} |->
            IF k = "calcular_iva" THEN TRUE ELSE 0] >>

\* an answer typed at a prompt: int() raises ValueError on it, or gives val
Answers ==
    { [numeric |-> FALSE, val |-> 0] } \cup
    { [numeric |-> TRUE, val |-> v] : v \in (0 - 1)..(MaxFiles + MaxSheets) }

\* what the file system answers for the typed name: whether it is a file,
\* whether it is all digits (num, else -1), how many **/*.xls* files there
\* are, whether Path.glob takes **/<name> as a pattern (it raises ValueError
\* on a name such as a**b) and how many paths match it
FileSystems ==
    { f \in [is_file : BOOLEAN, num : (0 - 1)..(MaxFiles + 1),
             nxls : 0..MaxFiles, patron_valido : BOOLEAN,
             nrutas : 0..MaxFiles] :
        ~f.patron_valido => f.nrutas = 0 }

Ruta(src, idx) == [src |-> src, idx |-> idx]

SheetNames(n) == [i \in 1..n |-> CASE i = 1 -> "Hoja1" [] i = 2 -> "Hoja2"
                                   [] i = 3 -> "Hoja3" [] OTHER -> "HojaN"]

NoAnswer == [numeric |-> FALSE, val |-> 0]

(***************************************************************************)
(* main() and ExcelAnalyzer.__init__                                       *)
(***************************************************************************)
\* main(), lines 377-391: the name is typed and ExcelAnalyzer(archivo_excel)
\* is constructed with no configuracion; __init__ lines 19-24
Init ==
    /\ pc = "logging"
    /\ configuracion = <<>>
    /\ fs \in FileSystems
    /\ entrada = NoAnswer
    /\ archivo_excel = <<>>
    /\ posibles_rutas = <<>>
    /\ sheet_names = <<>>
    /\ hoja_seleccionada = ""
    /\ leido = <<>>
    /\ df = <<>>
    /\ log_dir = FALSE
    /\ directorio_salida = FALSE
    /\ columnas_monetarias = <<>>
    /\ columnas_no_monetarias = <<>>
    /\ totales = <<>>
    /\ reporte = <<>>
    /\ mensaje = "none"
    /\ etapas = <<>>

\* _configurar_logging
ConfigurarLogging ==
    /\ pc = "logging"
    /\ log_dir' = TRUE
    /\ pc' = "validar"
    /\ UNCHANGED <<configuracion, fs, entrada, archivo_excel, posibles_rutas,
                   sheet_names, hoja_seleccionada, leido, df,
                   directorio_salida, columnas_monetarias,
                   columnas_no_monetarias, totales, reporte, mensaje, etapas>>

\* mutant: the lower bound of line 63 left out
NumeroEnListaSinMinimo(f) == f.num >= 0 /\ f.num <= f.nxls

\* line 60 and line 63: the typed name is a number of the list of files
NumeroEnLista(f) == f.num >= 0 /\ 1 <= f.num /\ f.num <= f.nxls

\* _validar_archivo up to the prompt: what it returns, asks or raises
ValidarResultado(f) ==
    IF f.is_file THEN [tipo |-> "ruta", ruta |-> Ruta("typed", 0)]
    ELSE IF NumeroEnLista(f) THEN [tipo |-> "ruta", ruta |-> Ruta("xls", f.num)]
    ELSE IF ~f.patron_valido THEN [tipo |-> "glob_error", ruta |-> Ruta("none", 0)]
    ELSE IF f.nrutas = 1 THEN [tipo |-> "ruta", ruta |-> Ruta("glob", 1)]
    ELSE IF f.nrutas > 1 THEN [tipo |-> "prompt", ruta |-> Ruta("glob", 0)]
    ELSE [tipo |-> "not_found", ruta |-> Ruta("none", 0)]

\* _validar_archivo returns a path without asking (lines 57-69)
ValidarArchivoResuelve ==
    /\ pc = "validar"
    /\ ValidarResultado(fs).tipo = "ruta"
    /\ archivo_excel' = <<ValidarResultado(fs).ruta>>
    /\ pc' = "cargar"
    /\ UNCHANGED <<configuracion, fs, entrada, posibles_rutas, sheet_names,
                   hoja_seleccionada, leido, df, log_dir, directorio_salida,
                   columnas_monetarias, columnas_no_monetarias, totales,
                   reporte, mensaje, etapas>>

\* several paths match: they are listed and the prompt loop starts (71-75)
ValidarArchivoPregunta ==
    /\ pc = "validar"
    /\ ValidarResultado(fs).tipo = "prompt"
    /\ posibles_rutas' = [i \in 1..fs.nrutas |-> Ruta("glob", i)]
    /\ pc' = "file_prompt"
    /\ UNCHANGED <<configuracion, fs, entrada, archivo_excel, sheet_names,
                   hoja_seleccionada, leido, df, log_dir, directorio_salida,
                   columnas_monetarias, columnas_no_monetarias, totales,
                   reporte, mensaje, etapas>>

\* lines 84-90 and main's handler, lines 400-402: FileNotFoundError is
\* raised, logged, raised again and reported by main
ValidarArchivoNoEncontrado ==
    /\ pc = "validar"
    /\ ValidarResultado(fs).tipo = "not_found"
    /\ mensaje' = "not_found"
    /\ pc' = "fin"
    /\ UNCHANGED <<configuracion, fs, entrada, archivo_excel, posibles_rutas,
                   sheet_names, hoja_seleccionada, leido, df, log_dir,
                   directorio_salida, columnas_monetarias,
                   columnas_no_monetarias, totales, reporte, etapas>>

\* line 66 raises ValueError: lines 88-90 log it and raise it again, main
\* reports it (lines 403-404)
ValidarArchivoPatronInvalido ==
    /\ pc = "validar"
    /\ ValidarResultado(fs).tipo = "glob_error"
    /\ mensaje' = "value_error"
    /\ pc' = "fin"
    /\ UNCHANGED <<configuracion, fs, entrada, archivo_excel, posibles_rutas,
                   sheet_names, hoja_seleccionada, leido, df, log_dir,
                   directorio_salida, columnas_monetarias,
                   columnas_no_monetarias, totales, reporte, etapas>>

\* Python's list[i] (0-based, a negative i counts from the end)
PyIndex(list, i) == IF i >= 0 THEN list[i + 1] ELSE list[Len(list) + i + 1]

\* mutant: the lower bound of line 79 left out
SeleccionArchivoSinMinimo(seleccion, n) == seleccion <= n

\* line 79
SeleccionArchivoValida(seleccion, n) == 1 <= seleccion /\ seleccion <= n

\* one turn of the loop of lines 75-82
FilePrompt ==
    /\ pc = "file_prompt"
    /\ \E a \in Answers :
        /\ entrada' = a
        /\ IF a.numeric /\ SeleccionArchivoValida(a.val, Len(posibles_rutas))
           THEN /\ archivo_excel' = <<PyIndex(posibles_rutas, a.val - 1)>>
                /\ pc' = "cargar"
           ELSE UNCHANGED <<archivo_excel, pc>>
    /\ UNCHANGED <<configuracion, fs, posibles_rutas, sheet_names,
                   hoja_seleccionada, leido, df, log_dir, directorio_salida,
                   columnas_monetarias, columnas_no_monetarias, totales,
                   reporte, mensaje, etapas>>

\* lines 106-107: the workbook opens and its sheets are listed
CargarArchivoAbre ==
    /\ pc = "cargar"
    /\ \E n \in 1..MaxSheets : sheet_names' = SheetNames(n)
    /\ pc' = "sheet_prompt"
    /\ UNCHANGED <<configuracion, fs, entrada, archivo_excel, posibles_rutas,
                   hoja_seleccionada, leido, df, log_dir, directorio_salida,
                   columnas_monetarias, columnas_no_monetarias, totales,
                   reporte, mensaje, etapas>>

\* pd.ExcelFile raises (the path is no workbook, cannot be read, or is a
\* link to nothing): lines 128-131 log and raise again, main reports it
\* (lines 400-407)
CargarArchivoFalla ==
    /\ pc = "cargar"
    /\ mensaje' \in {"not_found", "value_error", "inesperado"}
    /\ pc' = "fin"
    /\ UNCHANGED <<configuracion, fs, entrada, archivo_excel, posibles_rutas,
                   sheet_names, hoja_seleccionada, leido, df, log_dir,
                   directorio_salida, columnas_monetarias,
                   columnas_no_monetarias, totales, reporte, etapas>>

\* line 113, on seleccion = int(input(...)) - 1
SeleccionHojaValida(seleccion, n) == 0 <= seleccion /\ seleccion < n

\* one turn of the loop of lines 109-117, and line 119 when it is left
SheetPrompt ==
    /\ pc = "sheet_prompt"
    /\ \E a \in Answers :
        /\ entrada' = a
        /\ IF a.numeric /\ SeleccionHojaValida(a.val - 1, Len(sheet_names))
           THEN /\ hoja_seleccionada' = PyIndex(sheet_names, a.val - 1)
                /\ pc' = "read"
           ELSE UNCHANGED <<hoja_seleccionada, pc>>
    /\ UNCHANGED <<configuracion, fs, archivo_excel, posibles_rutas,
                   sheet_names, leido, df, log_dir, directorio_salida,
                   columnas_monetarias, columnas_no_monetarias, totales,
                   reporte, mensaje, etapas>>

\* line 120: pd.read_excel gives the sheet's frame
ReadExcel ==
    /\ pc = "read"
    /\ \E t \in SheetFrames : leido' = <<t>> /\ df' = <<t>>
    /\ etapas' = Append(etapas, "load")
    /\ pc' = "preparar"
    /\ UNCHANGED <<configuracion, fs, entrada, archivo_excel, posibles_rutas,
                   sheet_names, hoja_seleccionada, log_dir, directorio_salida,
                   columnas_monetarias, columnas_no_monetarias, totales,
                   reporte, mensaje>>

\* mutant: line 127 returns df without preparing it
PrepararOmitido ==
    /\ pc = "preparar"
    /\ pc' = "crear_dir"
    /\ UNCHANGED <<configuracion, fs, entrada, archivo_excel, posibles_rutas,
                   sheet_names, hoja_seleccionada, leido, df, log_dir,
                   directorio_salida, columnas_monetarias,
                   columnas_no_monetarias, totales, reporte, mensaje, etapas>>

\* line 127: _preparar_columnas_financieras(df), then line 28 keeps it
Preparar ==
    /\ pc = "preparar"
    /\ df' = <<PrepararColumnasFinancieras(df[1])>>
    /\ etapas' = Append(etapas, "coerce")
    /\ pc' = "crear_dir"
    /\ UNCHANGED <<configuracion, fs, entrada, archivo_excel, posibles_rutas,
                   sheet_names, hoja_seleccionada, leido, log_dir,
                   directorio_salida, columnas_monetarias,
                   columnas_no_monetarias, totales, reporte, mensaje>>

\* _crear_directorio_salida
CrearDirectorioSalida ==
    /\ pc = "crear_dir"
    /\ directorio_salida' = TRUE
    /\ pc' = "identificar"
    /\ UNCHANGED <<configuracion, fs, entrada, archivo_excel, posibles_rutas,
                   sheet_names, hoja_seleccionada, leido, df, log_dir,
                   columnas_monetarias, columnas_no_monetarias, totales,
                   reporte, mensaje, etapas>>

\* _identificar_columnas
IdentificarColumnas ==
    /\ pc = "identificar"
    /\ columnas_monetarias' = ColumnasMonetarias(df[1])
    /\ columnas_no_monetarias' =
           ColumnasNoMonetarias(df[1], ColumnasMonetarias(df[1]))
    /\ etapas' = Append(etapas, "classify")
    /\ pc' = "calcular"
    /\ UNCHANGED <<configuracion, fs, entrada, archivo_excel, posibles_rutas,
                   sheet_names, hoja_seleccionada, leido, df, log_dir,
                   directorio_salida, totales, reporte, mensaje>>

\* generar_reporte_html, line 208: calcular_totales_financieros()
CalcularTotales ==
    /\ pc = "calcular"
    /\ totales' = <<CalcularTotalesFinancieros(df[1], configuracion,
                                               columnas_monetarias)>>
    /\ etapas' = Append(etapas, "aggregate")
    /\ pc' = "render"
    /\ UNCHANGED <<configuracion, fs, entrada, archivo_excel, posibles_rutas,
                   sheet_names, hoja_seleccionada, leido, df, log_dir,
                   directorio_salida, columnas_monetarias,
                   columnas_no_monetarias, reporte, mensaje>>

\* generar_reporte_html, lines 211-365: the document is built from the
\* totals and written; main reports success (lines 396-398)
EscribirReporte ==
    /\ pc = "render"
    /\ reporte' = <<[resumen |-> SelectSeq(totales[1],
                                    LAMBDA e : e.clave # "Total Factura"),
                     total_factura |-> Lookup(totales[1], "Total Factura")]>>
    /\ etapas' = Append(etapas, "render")
    /\ mensaje' = "ok"
    /\ pc' = "fin"
    /\ UNCHANGED <<configuracion, fs, entrada, archivo_excel, posibles_rutas,
                   sheet_names, hoja_seleccionada, leido, df, log_dir,
                   directorio_salida, columnas_monetarias,
                   columnas_no_monetarias, totales>>

Next ==
    \/ ConfigurarLogging
    \/ ValidarArchivoResuelve
    \/ ValidarArchivoPregunta
    \/ ValidarArchivoNoEncontrado
    \/ ValidarArchivoPatronInvalido
    \/ FilePrompt
    \/ CargarArchivoAbre
    \/ CargarArchivoFalla
    \/ SheetPrompt
    \/ ReadExcel
    \/ Preparar
    \/ CrearDirectorioSalida
    \/ IdentificarColumnas
    \/ CalcularTotales
    \/ EscribirReporte

Spec == Init /\ [][Next]_vars

(***************************************************************************)
(* The analyzer on any sheet.  The behaviours start right after            *)
(* pd.read_excel (line 120) has returned, with the configuracion the       *)
(* caller passed to __init__ (line 24).                                    *)
(***************************************************************************)
InitAfterRead(config) ==
    /\ pc = "preparar"
    /\ configuracion = config
    /\ fs = [is_file |-> TRUE, num |-> 0 - 1, nxls |-> 0,
             patron_valido |-> TRUE, nrutas |-> 0]
    /\ entrada = [numeric |-> TRUE, val |-> 1]
    /\ archivo_excel = <<Ruta("typed", 0)>>
    /\ posibles_rutas = <<>>
    /\ sheet_names = SheetNames(1)
    /\ hoja_seleccionada = "Hoja1"
    /\ \E h \in Headers : \E r \in 0..MaxRows :
         \E d \in [1..Len(h) -> [1..r -> CellValues]] :
            /\ leido = <<[columns |-> h, data |-> d]>>
            /\ df = <<[columns |-> h, data |-> d]>>
    /\ log_dir = TRUE
    /\ directorio_salida = FALSE
    /\ columnas_monetarias = <<>>
    /\ columnas_no_monetarias = <<>>
    /\ totales = <<>>
    /\ reporte = <<>>
    /\ mensaje = "none"
    /\ etapas = <<"load">>

NextSheet ==
    \/ Preparar
    \/ CrearDirectorioSalida
    \/ IdentificarColumnas
    \/ CalcularTotales
    \/ EscribirReporte

\* constructed as main() does, with no configuracion
InitSheet == InitAfterRead(<<>>)

SpecSheet == InitSheet /\ [][NextSheet]_vars

\* constructed with any configuracion
InitConfig == \E k \in 1..Len(Configuraciones) : InitAfterRead(Configuraciones[k])

SpecConfig == InitConfig /\ [][NextSheet]_vars

(***************************************************************************)
(* Properties.                                                             *)
(***************************************************************************)
\* the keyword list as the specification states it
PalabrasClave ==
    {"monto", "subtotal", "iva", "total", "descuento", "impuesto",
     "factura", "precio"}

\* a label that is a string and contains a keyword, whatever its case
NombreMonetario(c) ==
    c.isstr /\ \E w \in PalabrasClave : StrContains(w, StrLower(c.text))

\* NombreMonetario on the labels of the sheets
EsNombreMonetario == [c \in ColumnNames |-> NombreMonetario(c)]

Preparado == pc \in {"crear_dir", "identificar", "calcular", "render", "fin"}
Clasificado == pc \in {"calcular", "render", "fin"}
Agregado == pc \in {"render", "fin"} /\ totales # <<>>

Cols == df[1].columns
Count(x, seq) == Cardinality({i \in 1..Len(seq) : seq[i] = x})
Pos(x, seq) == CHOOSE i \in 1..Len(seq) : seq[i] = x

\* a list whose members come from Cols, each once, in the order of Cols
EnOrdenDeTabla(list) ==
    /\ \A i \in 1..Len(list) : InSeq(list[i], Cols)
    /\ \A i, j \in 1..Len(list) :
          i < j => Pos(list[i], Cols) < Pos(list[j], Cols)

\* the configuration with its documented defaults
CfgCalcularIva ==
    IF "calcular_iva" \in DOMAIN configuracion
    THEN configuracion["calcular_iva"] ELSE TRUE
CfgIvaRate ==
    IF "iva_rate" \in DOMAIN configuracion
    THEN configuracion["iva_rate"] ELSE 16

\* a monetary column qualifies for tax
Gravada(c) == CfgCalcularIva /\ ~StrContains("iva", StrLower(c.text))

\* the sum of a column of the frame, in hundredths
RECURSIVE SumaCeldas(_)
SumaCeldas(cells) ==
    IF Len(cells) = 0 THEN 0 ELSE cells[1].v + SumaCeldas(Tail(cells))
TotalDe(c) == 100 * SumaCeldas(df[1].data[Pos(c, Cols)])

RECURSIVE SumaGravadas(_)
\* the sum of the recorded "Total con IVA de X" over the columns X of the
\* list that qualified for tax
SumaGravadas(list) ==
    IF Len(list) = 0 THEN 0
    ELSE (IF Gravada(list[1])
          THEN Lookup(totales[1], "Total con IVA de " \o list[1].text)
          ELSE 0)
         + SumaGravadas(Tail(list))

\* C1: "Total Factura" is the sum of the recorded "Total con IVA de X" of
\* exactly the monetary columns X that qualified for tax (zero when none
\* qualifies); a column skipped for tax contributes nothing.
C1_TotalFacturaSoloGravadas ==
    Agregado =>
        Lookup(totales[1], "Total Factura") = SumaGravadas(columnas_monetarias)

RECURSIVE ClavesEsperadas(_)
\* the labels in derivation order: per column Total, then IVA, then Total
\* con IVA when the column qualifies
ClavesEsperadas(list) ==
    IF Len(list) = 0 THEN <<>>
    ELSE (IF Gravada(list[1])
          THEN <<"Total " \o list[1].text, "IVA de " \o list[1].text,
                 "Total con IVA de " \o list[1].text>>
          ELSE <<"Total " \o list[1].text>>)
         \o ClavesEsperadas(Tail(list))

\* C2: a monetary column C has "IVA de C" = total * rate and "Total con IVA
\* de C" = total + total * rate exactly when calcular_iva is true (default
\* true, rate default 0.16) and C's name has no "iva"; otherwise neither
\* entry exists; the entries come per column in table order and "Total
\* Factura" comes last.
C2_EntradasDeIva ==
    Agregado =>
        /\ \A i \in 1..Len(columnas_monetarias) :
              LET c == columnas_monetarias[i]
                  kIva == "IVA de " \o c.text
                  kCon == "Total con IVA de " \o c.text
              IN  IF Gravada(c)
                  THEN /\ HasKey(totales[1], kIva)
                       /\ HasKey(totales[1], kCon)
                       /\ 100 * Lookup(totales[1], kIva) = TotalDe(c) * CfgIvaRate
                       /\ 100 * Lookup(totales[1], kCon)
                              = 100 * TotalDe(c) + TotalDe(c) * CfgIvaRate
                  ELSE ~HasKey(totales[1], kIva) /\ ~HasKey(totales[1], kCon)
        /\ Keys(totales[1])
              = ClavesEsperadas(columnas_monetarias) \o <<"Total Factura">>

\* C3: with distinct column names, every monetary column C has an entry
\* "Total C" whose value is the sum of C's coerced cells.
C3_TotalPorColumna ==
    Agregado =>
        \A i \in 1..Len(columnas_monetarias) :
            LET c == columnas_monetarias[i]
            IN  /\ HasKey(totales[1], "Total " \o c.text)
                /\ Lookup(totales[1], "Total " \o c.text) = TotalDe(c)

\* C4: a column is in columnas_monetarias exactly when its name is a string
\* whose lower-cased text contains one of the keywords anywhere; a
\* non-string name is always in columnas_no_monetarias; cell contents play
\* no part.
C4_ClasificacionPorNombre ==
    Clasificado =>
        \A i \in 1..Len(Cols) :
            /\ InSeq(Cols[i], columnas_monetarias) <=> EsNombreMonetario[Cols[i]]
            /\ ~Cols[i].isstr => InSeq(Cols[i], columnas_no_monetarias)

C4_Witness ==
    /\ pc = "calcular"
    /\ InSeq(IntName("7"), columnas_no_monetarias)
    /\ InSeq(StrName("Total con IVA"), columnas_monetarias)

\* C5: the two lists partition the columns: every column is in exactly one
\* of them, nothing else is in them, and each keeps table order.
C5_ParticionTotal ==
    Clasificado =>
        /\ \A i \in 1..Len(Cols) :
              Count(Cols[i], columnas_monetarias)
                + Count(Cols[i], columnas_no_monetarias) = 1
        /\ EnOrdenDeTabla(columnas_monetarias)
        /\ EnOrdenDeTabla(columnas_no_monetarias)
        /\ Len(columnas_monetarias) + Len(columnas_no_monetarias) = Len(Cols)

C5_Witness ==
    /\ pc = "calcular"
    /\ Len(columnas_monetarias) = 1
    /\ Len(columnas_no_monetarias) = 1
    /\ Cols[1] = columnas_no_monetarias[1]

\* C6: coercion of a monetary column gives a column of the same length in
\* which every cell is a number: a number keeps its value, a cell that is
\* no number (text, missing) becomes zero.
C6_CoercionTotal ==
    Preparado =>
        \A i \in 1..Len(Cols) :
            EsNombreMonetario[Cols[i]] =>
                /\ Len(df[1].data[i]) = Len(leido[1].data[i])
                /\ \A r \in 1..Len(df[1].data[i]) :
                      LET antes == leido[1].data[i][r]
                          ahora == df[1].data[i][r]
                      IN  /\ ahora.kind = "num"
                          /\ antes.kind = "num" => ahora = antes
                          /\ (antes.kind = "nan"
                                \/ (antes.kind = "text" /\ ~Parsable(antes.s)))
                             => ahora = Num(0)

C6_Witness ==
    /\ pc = "crear_dir"
    /\ \E i \in 1..Len(Cols) :
          /\ EsNombreMonetario[Cols[i]]
          /\ Len(leido[1].data[i]) > 0
          /\ leido[1].data[i][1].kind = "text"
          /\ df[1].data[i][1] = Num(0)

\* C7: when aggregation runs, every cell of every column of
\* columnas_monetarias is a number and every cell of every other column
\* (non-string names included) is as it was loaded.
C7_SoloMonetariasReescritas ==
    Clasificado =>
        \A i \in 1..Len(Cols) :
            /\ InSeq(Cols[i], columnas_monetarias) =>
                  \A r \in 1..Len(df[1].data[i]) : df[1].data[i][r].kind = "num"
            /\ InSeq(Cols[i], columnas_no_monetarias) =>
                  df[1].data[i] = leido[1].data[i]

C7_Witness ==
    /\ pc = "calcular"
    /\ \E i, j \in 1..Len(Cols) :
          /\ InSeq(Cols[i], columnas_monetarias)
          /\ Len(leido[1].data[i]) > 0
          /\ leido[1].data[i][1].kind # "num"
          /\ InSeq(Cols[j], columnas_no_monetarias)
          /\ ~Cols[j].isstr
          /\ leido[1].data[j][1].kind # "num"

\* the typed name is no file, no number of the list, and the search for
\* **/<name> finds nothing
NoResoluble ==
    /\ ~fs.is_file
    /\ fs.num \notin 1..fs.nxls
    /\ fs.patron_valido
    /\ fs.nrutas = 0

Analizador ==
    <<archivo_excel, df, directorio_salida, columnas_monetarias,
      columnas_no_monetarias, hoja_seleccionada, totales, reporte>>

\* C9: in both selection loops an answer that is no number or is out of
\* 1..n raises nothing, changes no analyzer state and leads back to the
\* prompt; the loop is left only by a number in 1..n, and the item used is
\* the one at that position of the list shown.
C9_SeleccionRecuperable ==
    [][ /\ pc = "file_prompt" =>
             IF entrada'.numeric /\ entrada'.val \in 1..Len(posibles_rutas)
             THEN /\ pc' = "cargar"
                  /\ archivo_excel' = <<posibles_rutas[entrada'.val]>>
             ELSE /\ pc' = "file_prompt"
                  /\ Analizador' = Analizador
                  /\ mensaje' = mensaje
        /\ pc = "sheet_prompt" =>
             IF entrada'.numeric /\ entrada'.val \in 1..Len(sheet_names)
             THEN /\ pc' = "read"
                  /\ hoja_seleccionada' = sheet_names[entrada'.val]
             ELSE /\ pc' = "sheet_prompt"
                  /\ Analizador' = Analizador
                  /\ mensaje' = mensaje ]_vars

C9_Witness ==
    /\ pc = "file_prompt"
    /\ entrada.numeric
    /\ entrada.val = Len(posibles_rutas) + 1
    /\ archivo_excel = <<>>

IsPrefix(a, b) == Len(a) <= Len(b) /\ a = SubSeq(b, 1, Len(a))

OrdenDeclarado == <<"load", "classify", "coerce", "aggregate", "render">>
OrdenDelCodigo == <<"load", "coerce", "classify", "aggregate", "render">>

\* C10 as stated: in a successful run the stages happen one after another
\* in the order load, classify, coerce, aggregate, render.
C10_OrdenDeclarado ==
    (pc = "fin" /\ mensaje = "ok") => etapas = OrdenDeclarado

\* C10 as amended: the stages happen one after another in the order load,
\* coerce, classify, aggregate, render; the columns are classified on the
\* frame already coerced, and the report is written only after the
\* complete totals mapping exists.
C10_OrdenDeEtapas ==
    /\ IsPrefix(etapas, OrdenDelCodigo)
    /\ (pc = "fin" /\ mensaje = "ok") => etapas = OrdenDelCodigo
    /\ Len(columnas_monetarias) > 0 => InSeq("coerce", etapas)
    /\ reporte # <<>> =>
          /\ totales # <<>>
          /\ HasKey(totales[1], "Total Factura")
          /\ reporte[1].total_factura = Lookup(totales[1], "Total Factura")

C10_Witness ==
    /\ pc = "fin"
    /\ mensaje = "ok"
    /\ etapas = OrdenDelCodigo
    /\ Len(columnas_monetarias) > 0
    /\ reporte # <<>>

====
